---- MODULE Spec2Model ----
(***************************************************************************)
(* Model of src/main.py (camera registry, shortest-path route query and    *)
(* route-proximity ranking of the registered cameras).                     *)
(*                                                                         *)
(* Conventions                                                             *)
(*  - Python's None is the empty tuple <<>>, a present value v is <<v>>    *)
(*    (None / Some), so that "x is None" and truthiness can be modelled.   *)
(*  - Coordinates are indices on a grid of 0.0005 degrees whose origin is  *)
(*    (40.7400 N, 31.6000 E); distances and edge lengths are whole metres  *)
(*    (the code's kilometres times 1000).                                  *)
(*  - A name is a tuple of characters, so that str.strip() is computed.    *)
(***************************************************************************)
EXTENDS Integers, Sequences, FiniteSets, TLC

VARIABLES
    graph,          \* main: graph = load_road_network() (None or a graph)
    cameras,        \* st.session_state.cameras
    data_file,      \* DATA_FILE: absent, holding a list, or not readable as JSON
    confirm_delete, \* st.session_state.confirm_delete
    last,           \* the handler that ran in the last script run
    in_name,        \* the text typed in "Kamera Adi" in the last run
    message,        \* the st.error / st.success texts shown by the last run, in order
    start_node,     \* arguments of the last calculate_route call
    end_node,
    route_nodes,    \* its result (None or a node list)
    map_route,      \* the route handed to create_route_map (None if not called)
    match_in,       \* arguments of the last find_cameras_on_route call
    route_cameras   \* its result (None if it was not called)

vars == <<graph, cameras, data_file, confirm_delete, last, in_name, message,
          start_node, end_node, route_nodes, map_route, match_in, route_cameras>>

None == <<>>
Some(v) == <<v>>

(***************************************************************************)
(* Bounds of the model.                                                    *)
(***************************************************************************)
MaxLen == 2         \* edge lengths of the enumerated graphs are 0..MaxLen
MaxMatchCams == 2   \* cameras handed to find_cameras_on_route
MaxRouteLen == 2    \* nodes of a route handed to find_cameras_on_route

(***************************************************************************)
(* Graphs: nodes with coordinates y (latitude), x (longitude) and directed *)
(* edges with a 'length'.  len[<<u, v>>] is the smallest length among the  *)
(* parallel edges u -> v (the weight networkx uses on a multigraph), or    *)
(* None when there is no edge u -> v.                                      *)
(***************************************************************************)
inf == 1000000      \* float('inf')

HasNode(g, n) == n \in g.nodes
HasEdge(g, u, v) == <<u, v>> \in DOMAIN g.len /\ g.len[<<u, v>>] # None

\* Node ids of the enumerated routing graphs, and an id no graph contains.
RouterNodes == {1, 2, 3}
StaleNode == 9

RouterPairs == {p \in RouterNodes \X RouterNodes : p[1] # p[2]}

RouterGraphs ==
    {[nodes |-> RouterNodes,
      y |-> [n \in RouterNodes |-> 0],
      x |-> [n \in RouterNodes |-> n],
      len |-> l] : l \in [RouterPairs -> {None} \cup {Some(w) : w \in 0..MaxLen}]}

(***************************************************************************)
(* networkx.shortest_path(G, source, target, weight='length'): Dijkstra    *)
(* over the 'length' attribute.  It raises NodeNotFound when an endpoint   *)
(* is not in G and NetworkXNoPath when the target cannot be reached.       *)
(***************************************************************************)
Edges(g) == {p \in DOMAIN g.len : g.len[p] # None}

\* weight='length': the weight of every edge
EdgeWeight(g) == [p \in Edges(g) |-> g.len[p][1]]

\* Variant: no weight, every edge counts 1.
UnitWeight(g) == [p \in Edges(g) |-> 1]

RECURSIVE DijkstraLoop(_, _, _, _, _)
DijkstraLoop(g, weight, dist, pred, done) ==
    LET frontier == {n \in g.nodes \ done : dist[n] # inf}
    IN  IF frontier = {}
        THEN [dist |-> dist, pred |-> pred]
        ELSE LET u == CHOOSE n \in frontier :
                        \A m \in frontier :
                            dist[n] < dist[m] \/ (dist[n] = dist[m] /\ n <= m)
                 relax(v) == /\ HasEdge(g, u, v)
                             /\ v \notin done
                             /\ dist[u] + weight[<<u, v>>] < dist[v]
                 dist2 == [v \in g.nodes |->
                              IF relax(v) THEN dist[u] + weight[<<u, v>>] ELSE dist[v]]
                 pred2 == [v \in g.nodes |-> IF relax(v) THEN u ELSE pred[v]]
             IN  DijkstraLoop(g, weight, dist2, pred2, done \cup {u})

RECURSIVE PathTo(_, _, _)
PathTo(pred, source, v) ==
    IF v = source THEN <<v>> ELSE Append(PathTo(pred, source, pred[v]), v)

\* [exc |-> the exception raised ("" when none), path |-> the path returned]
Dijkstra(g, weight, source, target) ==
    IF ~HasNode(g, source) \/ ~HasNode(g, target)
    THEN [exc |-> "NodeNotFound", path |-> <<>>]
    ELSE LET r == DijkstraLoop(g, weight,
                      [n \in g.nodes |-> IF n = source THEN 0 ELSE inf],
                      [n \in g.nodes |-> n], {})
         IN  IF r.dist[target] = inf
             THEN [exc |-> "NetworkXNoPath", path |-> <<>>]
             ELSE [exc |-> "", path |-> PathTo(r.pred, source, target)]

shortest_path(g, source, target) == Dijkstra(g, EdgeWeight(g), source, target)

\* Variant: nx.shortest_path without weight='length'.
shortest_path_hops(g, source, target) == Dijkstra(g, UnitWeight(g), source, target)

(***************************************************************************)
(* calculate_route: None when an argument is None or when shortest_path    *)
(* raises (every exception is caught; st.error shows its text).            *)
(***************************************************************************)
\* Variant: the path of fewest edges.
calculate_route_unweighted(gr, start, end) ==
    IF gr = None \/ start = None \/ end = None
    THEN None
    ELSE LET r == shortest_path_hops(gr[1], start[1], end[1])
         IN  IF r.exc = "" THEN Some(r.path) ELSE None

\* Variant: the start of the path is returned when the end is not reached.
calculate_route_partial(gr, start, end) ==
    IF gr = None \/ start = None \/ end = None
    THEN None
    ELSE LET r == shortest_path(gr[1], start[1], end[1])
         IN  IF r.exc = "" THEN Some(r.path)
             ELSE IF r.exc = "NetworkXNoPath" THEN Some(<<start[1]>>) ELSE None

calculate_route(gr, start, end) ==
    IF gr = None \/ start = None \/ end = None
    THEN None
    ELSE LET r == shortest_path(gr[1], start[1], end[1])
         IN  IF r.exc = "" THEN Some(r.path) ELSE None

\* line 134: the exception st.error names inside calculate_route, if any
calculate_route_error(gr, start, end) ==
    IF gr = None \/ start = None \/ end = None
    THEN <<>>
    ELSE LET r == shortest_path(gr[1], start[1], end[1])
         IN  IF r.exc = "" THEN <<>> ELSE <<r.exc>>

(***************************************************************************)
(* calculate_distance: the haversine formula with R = 6371 km.  On the     *)
(* coordinate grid its value in whole metres depends only on the two       *)
(* index differences; HaversineTable[dlat + 1][dlon + 1] tabulates it.     *)
(***************************************************************************)
Abs(n) == IF n < 0 THEN -n ELSE n

HaversineTable ==
    << <<0, 42, 84, 126>>,
       <<56, 70, 101, 138>>,
       <<111, 119, 140, 168>>,
       <<167, 172, 187, 209>> >>

calculate_distance(lat1, lon1, lat2, lon2) ==
    HaversineTable[Abs(lat2 - lat1) + 1][Abs(lon2 - lon1) + 1]

(***************************************************************************)
(* The road network of the session: nodes 1, 2, 3 in a row, node 4 behind  *)
(* a one-way street from 3, node 5 in a component of its own.              *)
(***************************************************************************)
AppNodes == {1, 2, 3, 4, 5}

AppGraph ==
    [nodes |-> AppNodes,
     y |-> (1 :> 0 @@ 2 :> 0 @@ 3 :> 0 @@ 4 :> 2 @@ 5 :> 3),
     x |-> (1 :> 0 @@ 2 :> 1 @@ 3 :> 3 @@ 4 :> 3 @@ 5 :> 0),
     len |-> (<<1, 2>> :> Some(42) @@ <<2, 1>> :> Some(42) @@
              <<2, 3>> :> Some(84) @@ <<3, 2>> :> Some(84) @@
              <<1, 3>> :> Some(150) @@ <<3, 1>> :> Some(150) @@
              <<3, 4>> :> Some(111))]


(***************************************************************************)
(* find_nearest_node: osmnx.distance.nearest_nodes(graph, lon, lat) on an  *)
(* unprojected graph is the node of least haversine distance; which of     *)
(* several equidistant nodes it returns is left open.  None when the graph *)
(* is None or the search raises (a graph without nodes).                   *)
(***************************************************************************)
find_nearest_node(gr, lat, lon) ==
    IF gr = None
    THEN {None}
    ELSE LET g == gr[1]
             D(n) == calculate_distance(lat, lon, g.y[n], g.x[n])
             best == {n \in g.nodes : \A m \in g.nodes : D(n) <= D(m)}
         IN  IF best = {} THEN {None} ELSE {Some(n) : n \in best}

(***************************************************************************)
(* find_cameras_on_route.                                                  *)
(***************************************************************************)
DefaultBuffer == 100    \* buffer_distance=0.1 (km)

InRoute(route, n) == \E i \in 1..Len(route) : route[i] = n

\* Variant: only a node of the graph can be on the route.
OnRouteIfInGraph(g, route, cam) == HasNode(g, cam.node_id) /\ InRoute(route, cam.node_id)

\* Variant: the two ends of the route do not count as on the route.
OnRouteInterior(g, route, cam) ==
    \E i \in 2..(Len(route) - 1) : route[i] = cam.node_id

\* line 146: camera_node in route_nodes
OnRoute(g, route, cam) == InRoute(route, cam.node_id)

\* Variant: min_distance = distance.
Latest(a, b) == b

\* line 164: min(min_distance, distance)
Min2(a, b) == IF b < a THEN b ELSE a

\* Variant: the distance from the camera's own coordinate.
PointDistance(g, route_node, cam) ==
    calculate_distance(g.y[route_node], g.x[route_node], cam.y, cam.x)

\* lines 160-163: the distance between the two nodes' coordinates (a node
\* without 'y' or 'x' would raise and be skipped; osmnx nodes have both)
NodeDistance(g, route_node, cam) ==
    calculate_distance(g.y[route_node], g.x[route_node],
                       g.y[cam.node_id], g.x[cam.node_id])

\* lines 155-166: the loop over route_nodes, from index i on
RECURSIVE MinDistanceLoop(_, _, _, _, _)
MinDistanceLoop(g, route, cam, i, min_distance) ==
    IF i > Len(route)
    THEN min_distance
    ELSE MinDistanceLoop(g, route, cam, i + 1,
             IF HasNode(g, route[i]) /\ HasNode(g, cam.node_id)
             THEN Min2(min_distance, NodeDistance(g, route[i], cam))
             ELSE min_distance)

Entry(cam, on_route, distance) ==
    [name |-> cam.name, x |-> cam.x, y |-> cam.y, node_id |-> cam.node_id,
     on_route |-> on_route, distance_to_route |-> distance]

\* lines 144-173: the entries appended for cameras[i..], in order
RECURSIVE Collect(_, _, _, _, _)
Collect(g, route, cams, buffer, i) ==
    IF i > Len(cams)
    THEN <<>>
    ELSE LET cam == cams[i]
             rest == Collect(g, route, cams, buffer, i + 1)
         IN  IF OnRoute(g, route, cam)
             THEN <<Entry(cam, TRUE, 0)>> \o rest
             ELSE LET min_distance == MinDistanceLoop(g, route, cam, 1, inf)
                  IN  IF min_distance <= buffer
                      THEN <<Entry(cam, FALSE, min_distance)>> \o rest
                      ELSE rest

\* Variant: key (on_route, distance_to_route).
KeyLessNoNot(a, b) ==
    \/ ~a.on_route /\ b.on_route
    \/ a.on_route = b.on_route /\ a.distance_to_route < b.distance_to_route

\* line 176: key=lambda x: (not x['on_route'], x['distance_to_route']),
\* compared as Python compares tuples (False < True)
KeyLess(a, b) ==
    \/ a.on_route /\ ~b.on_route
    \/ a.on_route = b.on_route /\ a.distance_to_route < b.distance_to_route

\* list.sort is stable: e goes behind every element that is not greater
RECURSIVE InsertSorted(_, _)
InsertSorted(sorted, e) ==
    IF sorted = <<>>
    THEN <<e>>
    ELSE IF KeyLess(e, sorted[Len(sorted)])
         THEN Append(InsertSorted(SubSeq(sorted, 1, Len(sorted) - 1), e),
                     sorted[Len(sorted)])
         ELSE Append(sorted, e)

RECURSIVE SortEntries(_, _)
SortEntries(entries, n) ==
    IF n = 0 THEN <<>> ELSE InsertSorted(SortEntries(entries, n - 1), entries[n])

find_cameras_on_route(g, route, cams, buffer) ==
    IF route = <<>> \/ cams = <<>>
    THEN <<>>
    ELSE LET route_cameras_ == Collect(g, route, cams, buffer, 1)
         IN  SortEntries(route_cameras_, Len(route_cameras_))

(***************************************************************************)
(* The data file and the registry.                                         *)
(***************************************************************************)
FileAbsent == [kind |-> "absent", data |-> <<>>]
FileCorrupt == [kind |-> "corrupt", data |-> <<>>]
FileOf(cams) == [kind |-> "list", data |-> cams]

\* [] when the file is absent or json.load raises
load_camera_data(file) == IF file.kind = "list" THEN file.data ELSE <<>>

\* The outcomes of save_camera_data(cams): written (True); open() raised and
\* the file is as it was (False); the write raised after open(..., 'w') had
\* truncated the file, which is left unreadable (False).
save_camera_data(file, cams) ==
    {[ok |-> TRUE, file |-> FileOf(cams)],
     [ok |-> FALSE, file |-> file],
     [ok |-> FALSE, file |-> FileCorrupt]}

add_new_camera(name, x, y, node_id, cams) ==
    Append(cams, [name |-> name, x |-> x, y |-> y, node_id |-> node_id])

\* str.strip()
Chars == {" ", "a", "b"}

RECURSIVE lstrip(_)
lstrip(s) == IF s # <<>> /\ Head(s) = " " THEN lstrip(Tail(s)) ELSE s

RECURSIVE rstrip(_)
rstrip(s) ==
    IF s # <<>> /\ s[Len(s)] = " " THEN rstrip(SubSeq(s, 1, Len(s) - 1)) ELSE s

strip(s) == rstrip(lstrip(s))

\* The texts typed as a camera name.  They strip to two names, which is what
\* bounds the registry: names are unique.
RawNames ==
    {<<>>, <<" ">>, <<"a">>, <<" ", "a">>, <<"b">>, <<"b", " ">>}

\* The points <<lat, lng>> clicked when registering: on nodes 1, 3 and 5.
RegisterClicks == {<<0, 0>>, <<0, 3>>, <<3, 0>>}

\* Variant: not camera_name.
IsBlankUnstripped(camera_name) == camera_name = <<>>

\* line 386: not camera_name.strip()
IsBlank(camera_name) == strip(camera_name) = <<>>

\* Variant: no check against the existing names.
NeverRegistered(camera_name, cams) == FALSE

\* lines 389-390: camera_name.strip() in existing_names
IsRegistered(camera_name, cams) ==
    \E i \in 1..Len(cams) : cams[i].name = strip(camera_name)

\* Python truthiness of a node id (None and 0 are false) and of a result
Truthy(node) == node # 0
TruthyList(opt) == opt # None /\ opt[1] # <<>>

\* next((cam for cam in cameras if cam['name'] == name), None)
FirstNamed(cams, name) ==
    LET i == CHOOSE k \in 1..Len(cams) :
                 cams[k].name = name /\ \A j \in 1..(k - 1) : cams[j].name # name
    IN  cams[i]

(***************************************************************************)
(* Spec: the handlers of main(), one script run each.  What a run shows    *)
(* (message, route_nodes, map_route, match_in, route_cameras) is local to  *)
(* the run, so every run sets it anew.                                     *)
(***************************************************************************)
Init ==
    /\ graph = Some(AppGraph)
    /\ data_file = FileAbsent
    /\ cameras = load_camera_data(FileAbsent)
    /\ confirm_delete = FALSE
    /\ last = "init"
    /\ in_name = <<>>
    /\ message = <<>>
    /\ start_node = None
    /\ end_node = None
    /\ route_nodes = None
    /\ map_route = None
    /\ match_in = None
    /\ route_cameras = None

NoQuery ==
    /\ start_node' = None
    /\ end_node' = None
    /\ route_nodes' = None
    /\ map_route' = None
    /\ match_in' = None
    /\ route_cameras' = None

\* lines 343-346: a new session loads the registry from the data file
NewSession ==
    /\ cameras' = load_camera_data(data_file)
    /\ confirm_delete' = FALSE
    /\ last' = "load"
    /\ in_name' = <<>>
    /\ message' = IF load_camera_data(data_file) # <<>> THEN <<"loaded">> ELSE <<>>
    /\ NoQuery
    /\ UNCHANGED <<graph, data_file>>

\* lines 385-405: "Kamerayi Kaydet" with the name typed and the point clicked
Register(camera_name, click) ==
    /\ last' = "register"
    /\ in_name' = camera_name
    /\ NoQuery
    /\ UNCHANGED <<graph, confirm_delete>>
    /\ IF IsBlank(camera_name)
       THEN /\ message' = <<"EmptyName">>
            /\ UNCHANGED <<cameras, data_file>>
       ELSE IF IsRegistered(camera_name, cameras)
       THEN /\ message' = <<"DuplicateName">>
            /\ UNCHANGED <<cameras, data_file>>
       ELSE \E node_id \in find_nearest_node(graph, click[1], click[2]) :
                IF node_id # None
                THEN /\ cameras' = add_new_camera(strip(camera_name), click[2],
                                       click[1], node_id[1], cameras)
                     /\ \E saved \in save_camera_data(data_file, cameras') :
                            /\ data_file' = saved.file
                            /\ message' = IF saved.ok THEN <<"saved">> ELSE <<"SaveFailed">>
                ELSE /\ message' = <<"NoNode">>
                     /\ UNCHANGED <<cameras, data_file>>

\* Variant: the request itself empties the registry, without confirmation.
ClearAllAtOnce ==
    /\ cameras # <<>>
    /\ ~confirm_delete
    /\ cameras' = <<>>
    /\ data_file' = FileOf(<<>>)
    /\ last' = "clear_all"
    /\ in_name' = <<>>
    /\ message' = <<"cleared">>
    /\ NoQuery
    /\ UNCHANGED <<graph, confirm_delete>>

\* lines 518-521: "Tum Verileri Temizle"
ClearAll ==
    /\ cameras # <<>>
    /\ ~confirm_delete
    /\ confirm_delete' = TRUE
    /\ last' = "clear_all"
    /\ in_name' = <<>>
    /\ message' = <<>>
    /\ NoQuery
    /\ UNCHANGED <<graph, cameras, data_file>>

\* lines 525-532: "Onayla"
Confirm ==
    /\ cameras # <<>>
    /\ confirm_delete
    /\ cameras' = <<>>
    /\ \E saved \in save_camera_data(data_file, <<>>) :
           /\ data_file' = saved.file
           /\ confirm_delete' = IF saved.ok THEN FALSE ELSE confirm_delete
           /\ message' = IF saved.ok THEN <<"cleared">> ELSE <<"ClearFailed">>
    /\ last' = "confirm"
    /\ in_name' = <<>>
    /\ NoQuery
    /\ UNCHANGED graph

\* lines 534-536: "Iptal"
Cancel ==
    /\ cameras # <<>>
    /\ confirm_delete
    /\ confirm_delete' = FALSE
    /\ last' = "cancel"
    /\ in_name' = <<>>
    /\ message' = <<>>
    /\ NoQuery
    /\ UNCHANGED <<graph, cameras, data_file>>

\* lines 412-477: "Guzergahi Hesapla" with the two cameras selected
RouteQuery(i, j) ==
    /\ Len(cameras) >= 2
    /\ i \in 1..Len(cameras)
    /\ j \in 1..Len(cameras)
    /\ last' = "route_query"
    /\ in_name' = <<>>
    /\ UNCHANGED <<graph, cameras, data_file, confirm_delete>>
    /\ LET start_camera_name == cameras[i].name
           end_camera_name == cameras[j].name
       IN  IF start_camera_name = end_camera_name
           THEN /\ message' = <<"SameEndpoints">>
                /\ NoQuery
           ELSE LET start_camera == FirstNamed(cameras, start_camera_name)
                    end_camera == FirstNamed(cameras, end_camera_name)
                IN  IF Truthy(start_camera.node_id) /\ Truthy(end_camera.node_id)
                    THEN LET found == calculate_route(graph,
                                          Some(start_camera.node_id),
                                          Some(end_camera.node_id))
                         IN  /\ start_node' = Some(start_camera.node_id)
                             /\ end_node' = Some(end_camera.node_id)
                             /\ route_nodes' = found
                             /\ IF TruthyList(found)
                                THEN /\ message' = <<"RouteFound">>
                                     /\ map_route' = found
                                     /\ match_in' =
                                            Some([route |-> found[1],
                                                  cameras |-> cameras,
                                                  buffer |-> DefaultBuffer])
                                     /\ route_cameras' =
                                            Some(find_cameras_on_route(graph[1],
                                                found[1], cameras, DefaultBuffer))
                                ELSE /\ message' =
                                            calculate_route_error(graph,
                                                Some(start_camera.node_id),
                                                Some(end_camera.node_id))
                                            \o <<"NoRoute">>
                                     /\ map_route' = None
                                     /\ match_in' = None
                                     /\ route_cameras' = None
                    ELSE /\ message' = <<"MissingNode">>
                         /\ NoQuery

Next ==
    \/ NewSession
    \/ \E camera_name \in RawNames, click \in RegisterClicks : Register(camera_name, click)
    \/ ClearAll
    \/ Confirm
    \/ Cancel
    \/ \E i, j \in 1..Len(cameras) : RouteQuery(i, j)

Spec == Init /\ [][Next]_vars

(***************************************************************************)
(* SpecRouter: calculate_route applied to every enumerated graph and pair. *)
(***************************************************************************)
NodeArgs == {None} \cup {Some(n) : n \in RouterNodes \cup {StaleNode}}

InitRouter ==
    /\ graph \in {None} \cup {Some(g) : g \in RouterGraphs}
    /\ start_node \in NodeArgs
    /\ end_node \in NodeArgs
    /\ cameras = <<>>
    /\ data_file = FileAbsent
    /\ confirm_delete = FALSE
    /\ last = "init"
    /\ in_name = <<>>
    /\ message = <<>>
    /\ route_nodes = None
    /\ map_route = None
    /\ match_in = None
    /\ route_cameras = None

CalculateRoute ==
    /\ last = "init"
    /\ last' = "calculate_route"
    /\ route_nodes' = calculate_route(graph, start_node, end_node)
    /\ message' = calculate_route_error(graph, start_node, end_node)
    /\ UNCHANGED <<graph, cameras, data_file, confirm_delete, in_name,
                   start_node, end_node, map_route, match_in, route_cameras>>

NextRouter == CalculateRoute

SpecRouter == InitRouter /\ [][NextRouter]_vars

(***************************************************************************)
(* SpecMatcher: find_cameras_on_route applied to routes, camera lists and  *)
(* buffers over the session's road network.  The i-th camera is named by i *)
(* letters; its node is the node nearest to where it was clicked, or a     *)
(* node that is no longer in the graph.                                    *)
(***************************************************************************)
\* The points <<lat, lng>> the cameras were registered at: on node 1, beside
\* and on node 2, on node 3.
MatchClicks == {<<0, 0>>, <<1, 1>>, <<0, 1>>, <<0, 3>>}

NameOf(i) == [k \in 1..i |-> "a"]

MatchCameras(i) ==
    UNION {{[name |-> NameOf(i), x |-> c[2], y |-> c[1], node_id |-> n] :
              n \in {StaleNode} \cup
                    {m[1] : m \in find_nearest_node(Some(AppGraph), c[1], c[2])}} :
           c \in MatchClicks}

RECURSIVE CameraLists(_)
CameraLists(k) ==
    IF k = 0
    THEN {<<>>}
    ELSE {Append(cs, c) : cs \in CameraLists(k - 1), c \in MatchCameras(k)}

MatchCameraLists == UNION {CameraLists(k) : k \in 0..MaxMatchCams}

MatchRoutes == UNION {[1..k -> AppNodes \cup {StaleNode}] : k \in 0..MaxRouteLen}

Buffers == {0, DefaultBuffer}

InitMatcher ==
    /\ graph = Some(AppGraph)
    /\ match_in \in {Some([route |-> r, cameras |-> cs, buffer |-> b]) :
                        r \in MatchRoutes, cs \in MatchCameraLists, b \in Buffers}
    /\ cameras = <<>>
    /\ data_file = FileAbsent
    /\ confirm_delete = FALSE
    /\ last = "init"
    /\ in_name = <<>>
    /\ message = <<>>
    /\ start_node = None
    /\ end_node = None
    /\ route_nodes = None
    /\ map_route = None
    /\ route_cameras = None

FindCamerasOnRoute ==
    /\ last = "init"
    /\ last' = "find_cameras_on_route"
    /\ route_cameras' = Some(find_cameras_on_route(graph[1], match_in[1].route,
                                  match_in[1].cameras, match_in[1].buffer))
    /\ UNCHANGED <<graph, cameras, data_file, confirm_delete, in_name, message,
                   start_node, end_node, route_nodes, map_route, match_in>>

NextMatcher == FindCamerasOnRoute

SpecMatcher == InitMatcher /\ [][NextMatcher]_vars

(***************************************************************************)
(* Properties.                                                             *)
(***************************************************************************)
\* Every node sequence of at most |nodes| + 1 nodes: the candidates of the
\* brute-force enumeration (a shortest path never needs to repeat a node).
Walks(g) == UNION {[1..k -> g.nodes] : k \in 1..(Cardinality(g.nodes) + 1)}

IsPathFromTo(g, p, s, t) ==
    /\ p # <<>>
    /\ p[1] = s
    /\ p[Len(p)] = t
    /\ \A i \in 1..(Len(p) - 1) : HasEdge(g, p[i], p[i + 1])

RECURSIVE TotalLength(_, _)
TotalLength(g, p) ==
    IF Len(p) <= 1 THEN 0 ELSE g.len[<<p[1], p[2]>>][1] + TotalLength(g, Tail(p))

RECURSIVE ReachableFrom(_, _)
ReachableFrom(g, seen) ==
    LET more == seen \cup {v \in g.nodes : \E u \in seen : HasEdge(g, u, v)}
    IN  IF more = seen THEN seen ELSE ReachableFrom(g, more)

Connected(g, s, t) == t \in ReachableFrom(g, {s})

RouterCalled ==
    /\ last = "calculate_route"
    /\ graph # None
    /\ start_node # None
    /\ end_node # None

\* C1: for two connected nodes of a graph with non-negative edge lengths,
\* calculate_route returns a node sequence that starts at start, ends at end,
\* follows edges of the graph, and is no longer than any other path from
\* start to end.
C1_ShortestRoute ==
    (/\ RouterCalled
     /\ HasNode(graph[1], start_node[1])
     /\ HasNode(graph[1], end_node[1])
     /\ Connected(graph[1], start_node[1], end_node[1]))
    => /\ route_nodes # None
       /\ IsPathFromTo(graph[1], route_nodes[1], start_node[1], end_node[1])
       /\ \A p \in Walks(graph[1]) :
              IsPathFromTo(graph[1], p, start_node[1], end_node[1])
              => TotalLength(graph[1], route_nodes[1]) <= TotalLength(graph[1], p)

\* A route over an intermediate node is returned although a direct, longer
\* edge joins the two nodes.
C1_Witness ==
    /\ RouterCalled
    /\ route_nodes # None
    /\ Len(route_nodes[1]) = 3
    /\ HasEdge(graph[1], start_node[1], end_node[1])

\* C2: a route query between two existing nodes that no path joins fails with
\* NoPathFound: no node sequence is returned, none is handed to the map or to
\* the proximity matcher, and no ranked list is produced.
C2_NoPartialPath ==
    (/\ last = "route_query"
     /\ start_node # None
     /\ HasNode(graph[1], start_node[1])
     /\ HasNode(graph[1], end_node[1])
     /\ ~Connected(graph[1], start_node[1], end_node[1]))
    => /\ route_nodes = None
       /\ message = <<"NetworkXNoPath", "NoRoute">>
       /\ map_route = None
       /\ match_in = None
       /\ route_cameras = None

\* A query between cameras on the two components of the road network.
C2_Witness ==
    /\ last = "route_query"
    /\ start_node = Some(1)
    /\ end_node = Some(5)
    /\ route_nodes = None

\* The kind of failure of a route query, from its arguments alone.
FailureKind(gr, s, t) ==
    IF gr = None \/ s = None \/ t = None THEN "Internal"
    ELSE IF ~HasNode(gr[1], s[1]) \/ ~HasNode(gr[1], t[1]) THEN "InvalidNode"
    ELSE IF ~Connected(gr[1], s[1], t[1]) THEN "NoPathFound"
    ELSE "None"

\* C3: the result returned for two disconnected nodes (NoPathFound) differs
\* from the result returned for a node id that is not in the graph
\* (InvalidNode) and from the result of any other failure, so the result
\* alone tells which kind of failure occurred.
C3_DistinguishableErrors ==
    (/\ last = "calculate_route"
     /\ FailureKind(graph, start_node, end_node) = "NoPathFound")
    => \A s \in NodeArgs, t \in NodeArgs :
           FailureKind(graph, s, t) \in {"InvalidNode", "Internal"}
           => calculate_route(graph, s, t) # route_nodes

\* C4: a registration attempt whose name is empty after trimming, or equals
\* (as typed or trimmed) the name of a registered point, is rejected and
\* leaves the in-memory list and the data file as they were.
C4_RejectedRegistrationKeepsRegistry ==
    [][(/\ last' = "register"
        /\ \/ strip(in_name') = <<>>
           \/ \E i \in 1..Len(cameras) :
                  cameras[i].name \in {in_name', strip(in_name')})
       => /\ message' \in {<<"EmptyName">>, <<"DuplicateName">>}
          /\ cameras' = cameras
          /\ data_file' = data_file]_vars

\* A name that duplicates a registered one only after trimming was rejected,
\* and so was a name of blanks only.
C4_Witness ==
    /\ last = "register"
    /\ \/ message = <<"DuplicateName">> /\ in_name # strip(in_name)
       \/ message = <<"EmptyName">> /\ in_name # <<>>

NamesOk(cams) ==
    /\ \A i \in 1..Len(cams) : cams[i].name # <<>>
    /\ \A i, j \in 1..Len(cams) : cams[i].name = cams[j].name => i = j

\* C9: from an empty registry, after any registration attempts and bulk
\* clears, every registered point has a non-empty name and no two registered
\* points have the same name (in the session's list and in the data file).
C9_NamesUniqueNonEmpty ==
    NamesOk(cameras) /\ NamesOk(load_camera_data(data_file))

\* A registration was rejected as a duplicate in a registry of two points.
C9_Witness ==
    /\ Len(cameras) = 2
    /\ last = "register"
    /\ message = <<"DuplicateName">>

\* C10: after every registration step and every confirmed bulk clear, also
\* when writing the data file fails, the session's list and the persisted
\* list are the same sequence of points.
C10_MemoryMatchesFile ==
    last \in {"register", "confirm"} => cameras = load_camera_data(data_file)

MatcherCalled == match_in # None /\ route_cameras # None

\* The position in the input list of the camera an entry was made from.
InputIndex(e) ==
    CHOOSE i \in 1..Len(match_in[1].cameras) : match_in[1].cameras[i].name = e.name

EntriesOf(cam) ==
    {k \in 1..Len(route_cameras[1]) : route_cameras[1][k].name = cam.name}

\* C5: in the output of find_cameras_on_route every entry on the route comes
\* before every entry off the route, the entries off the route are in
\* ascending distance_to_route, and entries with equal sort key keep the
\* order they had in the input list.
C5_RankedOrder ==
    MatcherCalled =>
        LET out == route_cameras[1]
        IN  \A i, j \in 1..Len(out) :
                i < j =>
                    /\ ~(~out[i].on_route /\ out[j].on_route)
                    /\ (~out[i].on_route /\ ~out[j].on_route)
                       => out[i].distance_to_route <= out[j].distance_to_route
                    /\ (/\ out[i].on_route = out[j].on_route
                        /\ out[i].distance_to_route = out[j].distance_to_route)
                       => InputIndex(out[i]) < InputIndex(out[j])

\* The second camera of the input is on the route and is ranked before the
\* first, which is only near it.
C5_Witness ==
    /\ MatcherCalled
    /\ last = "find_cameras_on_route"
    /\ Len(route_cameras[1]) = 2
    /\ route_cameras[1][1].on_route
    /\ ~route_cameras[1][2].on_route
    /\ InputIndex(route_cameras[1][1]) = 2

\* The least distance between the coordinate <<lat, lon>> and the coordinates
\* of the route's nodes that are in the graph; inf when there is none.
LeastDistance(g, route, lat, lon) ==
    LET ds == {calculate_distance(g.y[route[k]], g.x[route[k]], lat, lon) :
                  k \in {k \in 1..Len(route) : HasNode(g, route[k])}}
    IN  IF ds = {} THEN inf ELSE CHOOSE d \in ds : \A o \in ds : d <= o

\* The distance of a camera to the route, measured from the graph node the
\* camera was resolved to.
NodeLeastDistance(g, route, cam) ==
    IF HasNode(g, cam.node_id)
    THEN LeastDistance(g, route, g.y[cam.node_id], g.x[cam.node_id])
    ELSE inf

\* C6: a point whose node is not a node of the route is absent from the
\* output when its least distance d to the route nodes exceeds the buffer,
\* and present exactly once, with on_route = false and distance_to_route = d,
\* when d <= buffer; so every entry off the route is within the buffer.
C6_BufferThreshold ==
    MatcherCalled =>
        LET in == match_in[1]
            out == route_cameras[1]
        IN  /\ \A i \in 1..Len(in.cameras) :
                   LET cam == in.cameras[i]
                       d == NodeLeastDistance(graph[1], in.route, cam)
                   IN  ~InRoute(in.route, cam.node_id) =>
                           IF d <= in.buffer
                           THEN /\ Cardinality(EntriesOf(cam)) = 1
                                /\ \A k \in EntriesOf(cam) :
                                       /\ ~out[k].on_route
                                       /\ out[k].distance_to_route = d
                           ELSE EntriesOf(cam) = {}
            /\ \A k \in 1..Len(out) :
                   ~out[k].on_route => out[k].distance_to_route <= in.buffer

\* A camera off the route is reported at the distance of the nearer of two
\* route nodes, the nearer one coming first in the route; another is left out.
C6_Witness ==
    /\ MatcherCalled
    /\ last = "find_cameras_on_route"
    /\ Len(match_in[1].route) = 2
    /\ \E k \in 1..Len(route_cameras[1]) :
           LET e == route_cameras[1][k]
           IN  /\ ~e.on_route
               /\ HasNode(graph[1], match_in[1].route[2])
               /\ e.distance_to_route <
                      calculate_distance(graph[1].y[match_in[1].route[2]],
                                         graph[1].x[match_in[1].route[2]],
                                         graph[1].y[e.node_id], graph[1].x[e.node_id])
    /\ Len(route_cameras[1]) < Len(match_in[1].cameras)

\* C7: the distance reported for a point off the route is the least
\* great-circle distance between the point's own registered coordinate and
\* the route nodes' coordinates.
C7_DistanceFromOwnCoordinate ==
    MatcherCalled =>
        \A k \in 1..Len(route_cameras[1]) :
            LET e == route_cameras[1][k]
            IN  ~e.on_route =>
                    e.distance_to_route =
                        LeastDistance(graph[1], match_in[1].route, e.y, e.x)

\* C7 as amended: the distance reported for a point off the route is the
\* least great-circle distance between the coordinate of the graph node the
\* point was resolved to and the route nodes' coordinates, so two points
\* resolved to the same node are reported at the same distance.
C7_DistanceFromResolvedNode ==
    MatcherCalled =>
        LET out == route_cameras[1]
        IN  /\ \A k \in 1..Len(out) :
                   ~out[k].on_route =>
                       out[k].distance_to_route =
                           NodeLeastDistance(graph[1], match_in[1].route, out[k])
            /\ \A k, m \in 1..Len(out) :
                   out[k].node_id = out[m].node_id =>
                       out[k].distance_to_route = out[m].distance_to_route

\* Two cameras registered at different coordinates and resolved to the same
\* node are both reported off the route, one of them at a distance that is
\* not the distance from its own coordinate.
C7_Witness ==
    /\ MatcherCalled
    /\ last = "find_cameras_on_route"
    /\ Len(route_cameras[1]) = 2
    /\ ~route_cameras[1][1].on_route
    /\ route_cameras[1][1].node_id = route_cameras[1][2].node_id
    /\ <<route_cameras[1][1].y, route_cameras[1][1].x>> #
           <<route_cameras[1][2].y, route_cameras[1][2].x>>
    /\ \E k \in 1..2 :
           route_cameras[1][k].distance_to_route #
               LeastDistance(graph[1], match_in[1].route,
                             route_cameras[1][k].y, route_cameras[1][k].x)

\* C8: a point whose node_id is not in the graph does not make the matcher
\* fail; it is in the output, with on_route = true and distance 0, exactly
\* when its node_id is one of the route's node ids, and is absent otherwise.
C8_StaleNode ==
    (last = "find_cameras_on_route" /\ match_in[1].route # <<>>) =>
        /\ route_cameras # None
        /\ \A i \in 1..Len(match_in[1].cameras) :
               LET cam == match_in[1].cameras[i]
               IN  ~HasNode(graph[1], cam.node_id) =>
                       IF InRoute(match_in[1].route, cam.node_id)
                       THEN /\ Cardinality(EntriesOf(cam)) = 1
                            /\ \A k \in EntriesOf(cam) :
                                   /\ route_cameras[1][k].on_route
                                   /\ route_cameras[1][k].distance_to_route = 0
                       ELSE EntriesOf(cam) = {}

\* A route that names a node missing from the graph, and two cameras on that
\* node, both reported on the route.
C8_Witness ==
    /\ last = "find_cameras_on_route"
    /\ Len(match_in[1].cameras) = 2
    /\ match_in[1].cameras[1].node_id = StaleNode
    /\ match_in[1].cameras[2].node_id = StaleNode
    /\ InRoute(match_in[1].route, StaleNode)
    /\ Len(route_cameras[1]) = 2
    /\ route_cameras[1][1].on_route

\* C11: bulk clear takes two steps.  Within a session the registry is
\* emptied only by "Onayla", pressed while confirm_delete is set, and
\* confirm_delete is set only by a "Tum Verileri Temizle" request; the
\* request and "Iptal" leave the session's list and the data file as they
\* were; after "Iptal" and after a confirm whose save succeeded
\* confirm_delete is false again.
C11_TwoStepClear ==
    [][/\ (cameras # <<>> /\ cameras' = <<>> /\ last' # "load")
          => (last' = "confirm" /\ confirm_delete)
       /\ (~confirm_delete /\ confirm_delete') => last' = "clear_all"
       /\ last' \in {"clear_all", "cancel"}
          => (cameras' = cameras /\ data_file' = data_file)
       /\ (last' = "cancel" \/ (last' = "confirm" /\ message' = <<"cleared">>))
          => ~confirm_delete']_vars

\* A confirmed clear was saved: the registry is empty and the flag is reset.
C11_Witness ==
    /\ last = "confirm"
    /\ message = <<"cleared">>
    /\ cameras = <<>>
    /\ ~confirm_delete

\* C12: a route query between two distinct registered points that yields a
\* route lists both the start point and the end point with on_route = true
\* and distance_to_route = 0, so the ranked list is not empty.
C12_EndpointsRanked ==
    (last = "route_query" /\ message = <<"RouteFound">>) =>
        /\ route_cameras # None
        /\ route_cameras[1] # <<>>
        /\ \A n \in {start_node[1], end_node[1]} :
               /\ \E i \in 1..Len(cameras) : cameras[i].node_id = n
               /\ \A i \in 1..Len(cameras) :
                      cameras[i].node_id = n =>
                          \E k \in 1..Len(route_cameras[1]) :
                              /\ route_cameras[1][k].name = cameras[i].name
                              /\ route_cameras[1][k].on_route
                              /\ route_cameras[1][k].distance_to_route = 0

\* A route over an intermediate node was found between two cameras on
\* different nodes, and both are listed.
C12_Witness ==
    /\ last = "route_query"
    /\ message = <<"RouteFound">>
    /\ start_node # end_node
    /\ Len(route_nodes[1]) = 3
    /\ Len(route_cameras[1]) = 2

====
